---- MODULE Spec2Model ----
(***************************************************************************)
(* Order lifecycle of the marketplace backend: the basket operations       *)
(* (backend/views/basket_views.py), order creation, deletion and placement *)
(* (backend/views/order_views.py) and the supplier confirmation            *)
(* (backend/views/partners_views.py) over the tables of backend/models.py. *)
(*                                                                         *)
(* Every request runs in one database transaction (ATOMIC_REQUESTS and     *)
(* transaction.atomic): a handler that raises leaves the tables as they    *)
(* were, a handler that returns a Response, of whatever status, commits.   *)
(* Celery jobs are enqueued by .delay() at the call, outside the           *)
(* transaction, so a rollback does not take them back.                     *)
(*                                                                         *)
(* The reverse relation of OrderItem.order is named "items" in models.py   *)
(* and is read as "ordered_items" and "order_items" by some views and      *)
(* serializers; the model reads the three names as that one relation.      *)
(* Primary keys are never reused; a rolled back insert does not consume    *)
(* one in the model (the keys' values are not observable by the claims).   *)
(*                                                                         *)
(* A request is modelled by an operator that gives its outcome (the tables *)
(* and the job queue as it leaves them, and its Response) from the current *)
(* state, and by the action that commits that outcome. Spec serves one     *)
(* request at a time; SpecConcAdd lets add-items requests of one buyer     *)
(* overlap between the SELECT of get_or_create and the rest.               *)
(* The receivers of backend/signals.py are taken as connected.             *)
(***************************************************************************)
EXTENDS Integers, Sequences, FiniteSets, TLC

\* ---------------------------------------------------------------- bounds
MaxOrders == 2
MaxItems == 2
MaxQty == 2
MaxBatch == 2
MaxIds == 2
InitStock == 2
MaxReqs == 2
MaxRemovedMails == 1
MaxSupplierMails == 3
MaxMails == 5

\* -------------------------------------------------------------- fixtures
\* Buyers (User rows); u2 has no email address.
Users == {"u1", "u2"}

UserEmail(u) == IF u = "u1" THEN "u1@mail" ELSE ""

\* Contact rows and their owner (Contact.user).
Contacts == {"c1", "c2"}

ContactUser(c) == IF c = "c1" THEN "u1" ELSE "u2"

\* Shop rows (all with state = True and an owner who has an email); s1 sells
\* p1 and p3, s2 sells p2.
Shops == {"s1", "s2"}

\* ProductInfo rows and their shop (ProductInfo.shop).
PInfos == {"p1", "p2", "p3"}

ShopOf(p) == IF p \in {"p1", "p3"} THEN "s1" ELSE "s2"

\* A missing request field (request.data.get(...) is None) and a null FK.
None == 0

NoContact == "none"

ORDER_STATUS_CHOICES ==
    {"basket", "new", "confirmed", "assembled", "sent", "delivered", "canceled"}

ORDER_ITEM_STATUS_CHOICES == {"pending", "confirmed", "rejected"}

\* Task.max_retries of send_email_confirmation: the task is declared with
\* @shared_task(bind=True) and no max_retries, which leaves Celery's default.
max_retries == 3

\* ----------------------------------------------------------------- state
VARIABLES
    orders,         \* Order rows: id -> [user, status, delivery_address]
    items,          \* OrderItem rows: id -> [order, product_info, quantity, shop_confirmed, status]
    next_order_id,  \* the Order primary key sequence
    next_item_id,   \* the OrderItem primary key sequence
    stock,          \* ProductInfo.quantity of every ProductInfo row
    history,        \* OrderHistory rows in creation order: [order, action, item]
    emails,         \* send_email_confirmation jobs enqueued: [kind, order, to]
    delivery,       \* the Celery state of every job of emails: [state, retries]
    reqs            \* add-items requests between two of their statements

vars == <<orders, items, next_order_id, next_item_id, stock, history, emails, delivery, reqs>>

\* The lines a request may carry (quantities below min_value=1 are left out).
Lines == [product_info : PInfos, quantity : 1..MaxQty]

Batches == UNION {[1..n -> Lines] : n \in 1..MaxBatch}

IdLists == UNION {[1..n -> 1..MaxItems] : n \in 1..MaxIds}

\* A Response: the HTTP status, which of the handler's messages it carries
\* and, where the body has them, the invalid ids of remove-items.
Resp(code, error) == [code |-> code, error |-> error, invalid_ids |-> <<>>]

\* What a request leaves behind: the tables and the job queue as the handler
\* leaves them, and its Response. Done(resp) is a request that changes nothing.
Done(resp) ==
    [orders |-> orders, items |-> items, next_order_id |-> next_order_id,
     next_item_id |-> next_item_id, stock |-> stock, history |-> history,
     emails |-> emails, resp |-> resp]

\* The number of "items removed" jobs in the queue.
removed_mails(q) == Len(SelectSeq(q, LAMBDA e : e.kind = "items_removed"))

\* A job as .delay() leaves it with the broker: not yet run, request.retries = 0.
Queued == [state |-> "PENDING", retries |-> 0]

\* The outcome of a request becomes the state; the jobs it has enqueued wait
\* for the worker.
Write(out) ==
    /\ orders' = out.orders
    /\ items' = out.items
    /\ next_order_id' = out.next_order_id
    /\ next_item_id' = out.next_item_id
    /\ stock' = out.stock
    /\ history' = out.history
    /\ emails' = out.emails
    /\ delivery' = delivery \o [k \in 1..(Len(out.emails) - Len(emails)) |-> Queued]

\* The request is served: its outcome becomes the state. The guards keep the
\* primary keys and the job queue within the bounds of the model.
Commit(out) ==
    /\ out.next_order_id <= MaxOrders + 1
    /\ out.next_item_id <= MaxItems + 1
    /\ removed_mails(out.emails) <= MaxRemovedMails
    /\ Write(out)

\* The rows of a queryset in primary key order.
RECURSIVE SortedIds(_)
SortedIds(S) ==
    IF S = {} THEN <<>>
    ELSE LET m == CHOOSE x \in S : \A y \in S : x <= y
         IN  <<m>> \o SortedIds(S \ {m})

\* order.items: the OrderItem rows of an order.
ItemsOf(its, o) == {i \in DOMAIN its : its[i].order = o}

\* Order.objects.filter(user=..., status="basket")
BasketsOf(ords, u) == {o \in DOMAIN ords : ords[o].user = u /\ ords[o].status = "basket"}

\* .first() under Meta.ordering = ("-dt",): the newest row.
First(S) == CHOOSE o \in S : \A x \in S : x <= o

\* A receiver that writes its entry at every save of an Order.
log_every_save(h, o, created) ==
    Append(h, [order |-> o, action |-> "status_updated", item |-> None])

\* signals.log_order_status_change, post_save of Order: a created row is
\* logged; on an update the handler reads the row back after the save, so the
\* "old" status it compares with is the new one and nothing is logged.
log_order_status_change(h, o, created) ==
    IF created THEN Append(h, [order |-> o, action |-> "status_updated", item |-> None])
    ELSE h

\* ---------------------------------------------------------- basket: add
\* BasketItemAddSerializer on one line: min_value=1 and validate(), which
\* refuses a quantity above the ProductInfo.quantity it has just loaded.
line_is_valid(snap, line) ==
    /\ line.quantity >= 1
    /\ ~(line.quantity > snap[line.product_info])

\* serializer.is_valid() with many=True: every line must validate.
is_valid(snap, batch) == \A k \in 1..Len(batch) : line_is_valid(snap, batch[k])

\* A create that never looks for the row of (order, product_info).
always_create(r, basket, line) ==
    [r EXCEPT !.items = r.items @@ (r.next :> [order |-> basket,
                                               product_info |-> line.product_info,
                                               quantity |-> line.quantity,
                                               shop_confirmed |-> FALSE,
                                               status |-> "pending"]),
              !.next = r.next + 1]

\* An update that adds the quantity to the one the row has.
update_or_create_adding(r, basket, line) ==
    LET same == {i \in DOMAIN r.items : /\ r.items[i].order = basket
                                         /\ r.items[i].product_info = line.product_info}
    IN  IF same # {}
        THEN LET i == CHOOSE x \in same : TRUE
             IN  [r EXCEPT !.items = [r.items EXCEPT ![i].quantity = @ + line.quantity]]
        ELSE always_create(r, basket, line)

\* OrderItem.objects.update_or_create(order, product_info, defaults={"quantity": q})
\* on r.items, with r.next the next primary key.
update_or_create(r, basket, line) ==
    LET same == {i \in DOMAIN r.items : /\ r.items[i].order = basket
                                         /\ r.items[i].product_info = line.product_info}
    IN  IF same # {}
        THEN LET i == CHOOSE x \in same : TRUE
             IN  [r EXCEPT !.items = [r.items EXCEPT ![i].quantity = line.quantity]]
        ELSE [r EXCEPT !.items = r.items @@ (r.next :> [order |-> basket,
                                                       product_info |-> line.product_info,
                                                       quantity |-> line.quantity,
                                                       shop_confirmed |-> FALSE,
                                                       status |-> "pending"]),
                       !.next = r.next + 1]

\* The loop of BasketAddView.post over serializer.validated_data; product_info
\* is the instance the serializer loaded, so its quantity is the one validated.
\* r.ok turns FALSE where the loop raises ValidationError.
RECURSIVE add_lines(_, _, _, _)
add_lines(r, basket, batch, snap) ==
    IF batch = <<>> \/ ~r.ok THEN r
    ELSE LET line == Head(batch)
         IN  IF snap[line.product_info] < line.quantity
             THEN [r EXCEPT !.ok = FALSE]
             ELSE add_lines(update_or_create(r, basket, line), basket, Tail(batch), snap)

\* The transaction.atomic block of BasketAddView.post. seen is what the SELECT
\* of get_or_create found; snap the quantities the serializer loaded.
basket_add_txn(u, batch, seen, snap) ==
    IF Cardinality(seen) > 1
    THEN \* MultipleObjectsReturned, caught by "except Exception"
         Done(Resp(500, "server_error"))
    ELSE LET created == seen = {}
             basket == IF created THEN next_order_id ELSE CHOOSE o \in seen : TRUE
             ords1 == IF created
                      THEN orders @@ (basket :> [user |-> u, status |-> "basket",
                                                 delivery_address |-> NoContact])
                      ELSE orders
             r == add_lines([items |-> items, next |-> next_item_id, ok |-> TRUE],
                            basket, batch, snap)
         IN  IF basket \notin DOMAIN ords1
             THEN \* the basket row is gone: IntegrityError on the insert
                  Done(Resp(500, "server_error"))
             ELSE IF ~r.ok
             THEN \* ValidationError: the transaction is rolled back
                  Done(Resp(400, "not_enough"))
             ELSE [Done(Resp(200, "")) EXCEPT
                     !.orders = ords1,
                     !.next_order_id = IF created THEN next_order_id + 1 ELSE next_order_id,
                     !.items = r.items,
                     !.next_item_id = r.next,
                     !.history = IF created
                                 THEN log_order_status_change(history, basket, TRUE)
                                 ELSE history]

\* An add-items that validates and saves line by line outside a transaction:
\* the lines before the refused one stay written.
basket_add_line_by_line(u, batch) ==
    LET seen == BasketsOf(orders, u)
        created == seen = {}
        basket == IF created THEN next_order_id ELSE First(seen)
        r == add_lines([items |-> items, next |-> next_item_id, ok |-> TRUE],
                       basket, batch, stock)
    IN  [Done(IF r.ok THEN Resp(200, "") ELSE Resp(400, "not_enough")) EXCEPT
            !.orders = IF created
                       THEN orders @@ (basket :> [user |-> u, status |-> "basket",
                                                  delivery_address |-> NoContact])
                       ELSE orders,
            !.next_order_id = IF created THEN next_order_id + 1 ELSE next_order_id,
            !.items = r.items,
            !.next_item_id = r.next,
            !.history = IF created
                        THEN log_order_status_change(history, basket, TRUE)
                        ELSE history]

\* BasketAddView.post, served without another request in between.
basket_add(u, batch) ==
    IF ~is_valid(stock, batch)
    THEN Done(Resp(400, "invalid"))
    ELSE basket_add_txn(u, batch, BasketsOf(orders, u), stock)

BasketAdd(u, batch) ==
    /\ Commit(basket_add(u, batch))
    /\ UNCHANGED reqs

\* No request in a slot of reqs.
Idle == [op |-> "idle"]

\* BasketAddView.post up to and including the SELECT of get_or_create: the
\* serializer has accepted the batch and the request has read the caller's
\* basket rows. No lock is taken and Order has no unique constraint on
\* (user, status), so other requests run between this and the rest.
BasketAddBegin(r, u, batch) ==
    /\ reqs[r] = Idle
    /\ is_valid(stock, batch)
    /\ reqs' = [reqs EXCEPT ![r] = [op |-> "add", user |-> u, batch |-> batch,
                                    seen |-> BasketsOf(orders, u), snap |-> stock]]
    /\ UNCHANGED <<orders, items, next_order_id, next_item_id, stock, history, emails, delivery>>

\* The rest of the transaction of BasketAddView.post, and its commit.
BasketAddCommit(r) ==
    /\ reqs[r].op = "add"
    /\ Commit(basket_add_txn(reqs[r].user, reqs[r].batch, reqs[r].seen, reqs[r].snap))
    /\ reqs' = [reqs EXCEPT ![r] = Idle]

\* ------------------------------------------------------- basket: remove
\* The queryset order_items of BasketRemoveView.delete: the rows of the
\* caller's basket whose id is in item_ids.
remove_order_items(u, ids) ==
    {i \in ItemsOf(items, First(BasketsOf(orders, u))) : \E k \in 1..Len(ids) : ids[k] = i}

\* A remove-items that deletes the rows it finds and reports the others.
basket_remove_found(u, ids) ==
    IF BasketsOf(orders, u) = {}
    THEN Done(Resp(404, "no_basket"))
    ELSE LET order_items == remove_order_items(u, ids)
             deleted == [i \in DOMAIN items \ order_items |-> items[i]]
         IN  IF Cardinality(order_items) # Len(ids)
             THEN [Done([Resp(400, "not_found") EXCEPT
                           !.invalid_ids = SelectSeq(ids, LAMBDA x : x \notin order_items)])
                     EXCEPT !.items = deleted]
             ELSE [Done(Resp(200, "")) EXCEPT !.items = deleted]

\* BasketRemoveView.delete
basket_remove(u, ids) ==
    IF BasketsOf(orders, u) = {}
    THEN Done(Resp(404, "no_basket"))
    ELSE LET order_items == remove_order_items(u, ids)
         IN  IF Cardinality(order_items) # Len(ids)
             THEN Done([Resp(400, "not_found") EXCEPT
                          !.invalid_ids = SelectSeq(ids, LAMBDA x : x \notin order_items)])
             ELSE [Done(Resp(200, "")) EXCEPT
                     !.items = [i \in DOMAIN items \ order_items |-> items[i]]]

BasketRemove(u, ids) ==
    /\ Commit(basket_remove(u, ids))
    /\ UNCHANGED reqs

\* ------------------------------------------------------ order operations
\* CreateOrderFromBasketView.post
create_order_from_basket(u) ==
    IF BasketsOf(orders, u) = {}
    THEN Done(Resp(404, "no_basket"))
    ELSE LET order == First(BasketsOf(orders, u))
         IN  IF ItemsOf(items, order) = {}
             THEN Done(Resp(400, "empty"))
             ELSE [Done(Resp(200, "")) EXCEPT
                     !.orders = [orders EXCEPT ![order].status = "new"],
                     !.history = log_order_status_change(history, order, FALSE)]

CreateOrderFromBasket(u) ==
    /\ Commit(create_order_from_basket(u))
    /\ UNCHANGED reqs

\* A delete-order without the check of the status.
delete_order_any_status(u, order_id) ==
    IF order_id = None
    THEN Done(Resp(400, "order_id"))
    ELSE IF ~(order_id \in DOMAIN orders /\ orders[order_id].user = u)
    THEN Done(Resp(404, "not_found"))
    ELSE [Done(Resp(200, "")) EXCEPT
            !.orders = [o \in DOMAIN orders \ {order_id} |-> orders[o]],
            !.items = [i \in DOMAIN items \ ItemsOf(items, order_id) |-> items[i]],
            !.history = SelectSeq(history, LAMBDA h : h.order # order_id)]

\* DeleteOrderView.post; order.delete() takes the OrderItem and OrderHistory
\* rows of the order with it (on_delete=CASCADE on both foreign keys).
delete_order(u, order_id) ==
    IF order_id = None
    THEN Done(Resp(400, "order_id"))
    ELSE IF ~(order_id \in DOMAIN orders /\ orders[order_id].user = u)
    THEN Done(Resp(404, "not_found"))
    ELSE IF orders[order_id].status # "new"
    THEN Done(Resp(400, "not_new"))
    ELSE [Done(Resp(200, "")) EXCEPT
            !.orders = [o \in DOMAIN orders \ {order_id} |-> orders[o]],
            !.items = [i \in DOMAIN items \ ItemsOf(items, order_id) |-> items[i]],
            !.history = SelectSeq(history, LAMBDA h : h.order # order_id)]

DeleteOrder(u, order_id) ==
    /\ Commit(delete_order(u, order_id))
    /\ UNCHANGED reqs

\* The shops of the lines of an order, in the order the lines are read
\* (send_supplier_requests_async groups the lines by shop).
RECURSIVE shops_in_order(_, _)
shops_in_order(its, ids) ==
    IF ids = <<>> THEN <<>>
    ELSE LET rest == shops_in_order(its, Tail(ids))
             shop == ShopOf(its[Head(ids)].product_info)
         IN  <<shop>> \o SelectSeq(rest, LAMBDA x : x # shop)

\* send_confirmation_email_async followed by send_supplier_requests_async:
\* one job for the buyer, then one per shop that has a line in the order.
place_emails(order, u) ==
    LET shops == shops_in_order(items, SortedIds(ItemsOf(items, order)))
    IN  <<[kind |-> "order_confirmation", order |-> order, to |-> u]>>
        \o [k \in 1..Len(shops) |-> [kind |-> "supplier_request", order |-> order, to |-> shops[k]]]

\* The writes of PlaceOrderView.post once its checks have passed.
place_writes(u, order_id, contact_id) ==
    [Done(Resp(200, "")) EXCEPT
        !.orders = [orders EXCEPT ![order_id].delivery_address = contact_id,
                                  ![order_id].status = "confirmed"],
        !.history = log_order_status_change(history, order_id, FALSE),
        !.emails = emails \o place_emails(order_id, u)]

\* A place-order that takes the quantities of the lines out of the stock.
place_order_reserving(u, order_id, contact_id) ==
    IF order_id = None \/ contact_id = NoContact
    THEN Done(Resp(400, "required"))
    ELSE IF ~(contact_id \in Contacts /\ ContactUser(contact_id) = u)
    THEN Done(Resp(404, "contact"))
    ELSE IF ~(/\ order_id \in DOMAIN orders
              /\ orders[order_id].user = u
              /\ orders[order_id].status = "new")
    THEN Done(Resp(404, "order"))
    ELSE IF ItemsOf(items, order_id) = {}
    THEN Done(Resp(400, "empty"))
    ELSE IF UserEmail(u) = ""
    THEN Done(Resp(400, "no_email"))
    ELSE [place_writes(u, order_id, contact_id) EXCEPT
            !.stock = [p \in PInfos |->
                          IF \E i \in ItemsOf(items, order_id) : items[i].product_info = p
                          THEN stock[p] - 1
                          ELSE stock[p]]]

\* A place-order that looks the order up without its status.
place_order_any_status(u, order_id, contact_id) ==
    IF order_id = None \/ contact_id = NoContact
    THEN Done(Resp(400, "required"))
    ELSE IF ~(contact_id \in Contacts /\ ContactUser(contact_id) = u)
    THEN Done(Resp(404, "contact"))
    ELSE IF ~(order_id \in DOMAIN orders /\ orders[order_id].user = u)
    THEN Done(Resp(404, "order"))
    ELSE IF ItemsOf(items, order_id) = {}
    THEN Done(Resp(400, "empty"))
    ELSE IF UserEmail(u) = ""
    THEN Done(Resp(400, "no_email"))
    ELSE place_writes(u, order_id, contact_id)

\* A place-order that looks the contact up without its owner.
place_order_any_contact(u, order_id, contact_id) ==
    IF order_id = None \/ contact_id = NoContact
    THEN Done(Resp(400, "required"))
    ELSE IF contact_id \notin Contacts
    THEN Done(Resp(404, "contact"))
    ELSE IF ~(/\ order_id \in DOMAIN orders
              /\ orders[order_id].user = u
              /\ orders[order_id].status = "new")
    THEN Done(Resp(404, "order"))
    ELSE IF ItemsOf(items, order_id) = {}
    THEN Done(Resp(400, "empty"))
    ELSE IF UserEmail(u) = ""
    THEN Done(Resp(400, "no_email"))
    ELSE place_writes(u, order_id, contact_id)

\* PlaceOrderView.post
place_order(u, order_id, contact_id) ==
    IF order_id = None \/ contact_id = NoContact
    THEN Done(Resp(400, "required"))
    ELSE IF ~(contact_id \in Contacts /\ ContactUser(contact_id) = u)
    THEN Done(Resp(404, "contact"))
    ELSE IF ~(/\ order_id \in DOMAIN orders
              /\ orders[order_id].user = u
              /\ orders[order_id].status = "new")
    THEN Done(Resp(404, "order"))
    ELSE IF ItemsOf(items, order_id) = {}
    THEN Done(Resp(400, "empty"))
    ELSE IF UserEmail(u) = ""
    THEN Done(Resp(400, "no_email"))
    ELSE place_writes(u, order_id, contact_id)

PlaceOrder(u, order_id, contact_id) ==
    /\ Commit(place_order(u, order_id, contact_id))
    /\ UNCHANGED reqs

\* -------------------------------------------------- supplier confirmation
\* PartnerConfirmOrderView._log_action
log_action(h, order, action, item) ==
    Append(h, [order |-> order, action |-> action, item |-> item])

\* The jobs a notification helper enqueues: none when the buyer has no email
\* (_notify_user_items_removed, _notify_user_order_canceled,
\* send_assembled_confirmation_email).
notify(q, order, kind) ==
    IF UserEmail(orders[order].user) = "" THEN q
    ELSE Append(q, [kind |-> kind, order |-> order, to |-> orders[order].user])

\* PartnerConfirmOrderView._notify_user_items_removed: one job for the buyer
\* with the rejected lines of the call in its message, none when the buyer
\* has no email.
notify_items_removed(q, order, removed_items) ==
    IF UserEmail(orders[order].user) = "" THEN q
    ELSE Append(q, [kind |-> "items_removed", order |-> order, to |-> orders[order].user,
                    lines |-> removed_items])

\* A _handle_rejected_items that saves the status of the line only.
handle_rejected_items_status_only(its, rejected_items) ==
    [i \in DOMAIN its |->
        IF i \in rejected_items THEN [its[i] EXCEPT !.status = "rejected"] ELSE its[i]]

\* PartnerConfirmOrderView._handle_rejected_items on the OrderItem rows.
handle_rejected_items(its, rejected_items) ==
    [i \in DOMAIN its |->
        IF i \in rejected_items
        THEN [its[i] EXCEPT !.status = "rejected", !.shop_confirmed = FALSE]
        ELSE its[i]]

\* The history rows _handle_rejected_items writes, one per rejected line.
rejected_history(h, order, ids) ==
    h \o [k \in 1..Len(ids) |-> [order |-> order, action |-> "item_rejected", item |-> ids[k]]]

\* The loop over confirmed_items: product_info.quantity -= item.quantity
\* (the lines of one order have distinct product_infos).
decrement(st, its, confirmed_items) ==
    [p \in PInfos |->
        IF \E i \in confirmed_items : its[i].product_info = p
        THEN st[p] - its[CHOOSE i \in confirmed_items : its[i].product_info = p].quantity
        ELSE st[p]]

\* The loop over confirmed_items: item.shop_confirmed = True.
confirm_items(its, confirmed_items) ==
    [i \in DOMAIN its |->
        IF i \in confirmed_items THEN [its[i] EXCEPT !.shop_confirmed = TRUE] ELSE its[i]]

\* shop_items, rejected_items and confirmed_items of PartnerConfirmOrderView.post
shop_items(shop, order_id) ==
    {i \in ItemsOf(items, order_id) : ShopOf(items[i].product_info) = shop}

\* A rejected_items taken from all the lines of the order.
rejected_items_any_shop(shop, order_id, rejected_item_ids) ==
    ItemsOf(items, order_id) \cap rejected_item_ids

rejected_items(shop, order_id, rejected_item_ids) ==
    shop_items(shop, order_id) \cap rejected_item_ids

confirmed_items(shop, order_id, rejected_item_ids) ==
    shop_items(shop, order_id) \ rejected_item_ids

\* The rows the loops over confirmed_items may leave bound to "item" (the
\* queryset has no ordering); None when the loops have no row to bind.
loop_item(shop, order_id, rejected_item_ids) ==
    IF order_id \in DOMAIN orders /\ confirmed_items(shop, order_id, rejected_item_ids) # {}
    THEN confirmed_items(shop, order_id, rejected_item_ids)
    ELSE {None}

\* The lines of confirmed_items that ask for more than the ProductInfo.quantity.
out_of_stock(shop, order_id, rejected_item_ids) ==
    {i \in confirmed_items(shop, order_id, rejected_item_ids) :
        items[i].quantity > stock[items[i].product_info]}

\* An aggregate re-evaluation that looks at the lines of the calling shop only.
confirm_writes_own_lines(shop, order_id, rejected_item_ids, item) ==
    LET rejected == rejected_items(shop, order_id, rejected_item_ids)
        confirmed == confirmed_items(shop, order_id, rejected_item_ids)
        h3 == log_action(rejected_history(log_action(history, order_id, "partner_action", None),
                                          order_id, SortedIds(rejected)),
                         order_id, "item_confirmed", item)
        e1 == IF rejected # {} THEN notify_items_removed(emails, order_id, rejected) ELSE emails
        items2 == confirm_items(handle_rejected_items(items, rejected), confirmed)
        remaining_items == {i \in shop_items(shop, order_id) : items2[i].status # "rejected"}
        saved == [Done(Resp(200, "")) EXCEPT
                    !.stock = decrement(stock, items, confirmed),
                    !.items = items2]
    IN  IF confirmed = {}
        THEN [Done(Resp(500, "server_error")) EXCEPT !.emails = e1]
        ELSE IF remaining_items = {}
        THEN [saved EXCEPT
                !.orders = [orders EXCEPT ![order_id].status = "canceled"],
                !.emails = notify(e1, order_id, "order_canceled"),
                !.history = log_action(h3, order_id, "order_canceled", None)]
        ELSE [saved EXCEPT
                !.orders = [orders EXCEPT ![order_id].status = "assembled"],
                !.emails = notify(e1, order_id, "order_assembled"),
                !.history = log_action(h3, order_id, "order_assembled", None)]

\* PartnerConfirmOrderView.post after its guards: the history entries, the
\* rejected and the confirmed lines and the aggregate re-evaluation.
confirm_writes(shop, order_id, rejected_item_ids, item) ==
    LET rejected == rejected_items(shop, order_id, rejected_item_ids)
        confirmed == confirmed_items(shop, order_id, rejected_item_ids)
        h1 == log_action(history, order_id, "partner_action", None)
        h2 == rejected_history(h1, order_id, SortedIds(rejected))
        h3 == log_action(h2, order_id, "item_confirmed", item)
        e1 == IF rejected # {} THEN notify_items_removed(emails, order_id, rejected) ELSE emails
        items1 == handle_rejected_items(items, rejected)
        items2 == confirm_items(items1, confirmed)
        remaining_items == {i \in ItemsOf(items2, order_id) : items2[i].status # "rejected"}
        saved == [Done(Resp(200, "")) EXCEPT
                    !.stock = decrement(stock, items, confirmed),
                    !.items = items2]
    IN  IF confirmed = {}
        THEN \* "item" was never bound by the loops over confirmed_items: the
             \* item_confirmed entry raises UnboundLocalError and the
             \* transaction is rolled back; the job already enqueued stays.
             [Done(Resp(500, "server_error")) EXCEPT !.emails = e1]
        ELSE IF remaining_items = {}
        THEN [saved EXCEPT
                !.orders = [orders EXCEPT ![order_id].status = "canceled"],
                !.emails = notify(e1, order_id, "order_canceled"),
                !.history = log_action(log_order_status_change(h3, order_id, FALSE),
                                       order_id, "order_canceled", None)]
        ELSE IF \A i \in remaining_items : items2[i].shop_confirmed
        THEN [saved EXCEPT
                !.orders = [orders EXCEPT ![order_id].status = "assembled"],
                !.emails = notify(e1, order_id, "order_assembled"),
                !.history = log_action(log_order_status_change(h3, order_id, FALSE),
                                       order_id, "order_assembled", None)]
        ELSE [saved EXCEPT !.emails = e1, !.history = h3]

\* A confirmation without the check of the order's status.
partner_confirm_any_status(shop, order_id, rejected_item_ids, item) ==
    IF order_id = None
    THEN Done(Resp(400, "order_id"))
    ELSE IF order_id \notin DOMAIN orders
    THEN Done(Resp(404, "not_found"))
    ELSE IF shop_items(shop, order_id) = {}
    THEN Done(Resp(403, "no_shop_items"))
    ELSE IF out_of_stock(shop, order_id, rejected_item_ids) # {}
    THEN Done(Resp(400, "out_of_stock"))
    ELSE confirm_writes(shop, order_id, rejected_item_ids, item)

\* A confirmation that does not compare the lines with the stock.
partner_confirm_any_stock(shop, order_id, rejected_item_ids, item) ==
    IF order_id = None
    THEN Done(Resp(400, "order_id"))
    ELSE IF order_id \notin DOMAIN orders
    THEN Done(Resp(404, "not_found"))
    ELSE IF orders[order_id].status # "confirmed"
    THEN Done(Resp(400, "not_confirmed"))
    ELSE IF shop_items(shop, order_id) = {}
    THEN Done(Resp(403, "no_shop_items"))
    ELSE confirm_writes(shop, order_id, rejected_item_ids, item)

\* PartnerConfirmOrderView.post, called by the owner of shop; item is the row
\* the loops over confirmed_items leave bound.
partner_confirm_order(shop, order_id, rejected_item_ids, item) ==
    IF order_id = None
    THEN Done(Resp(400, "order_id"))
    ELSE IF order_id \notin DOMAIN orders
    THEN Done(Resp(404, "not_found"))
    ELSE IF orders[order_id].status # "confirmed"
    THEN Done(Resp(400, "not_confirmed"))
    ELSE IF shop_items(shop, order_id) = {}
    THEN Done(Resp(403, "no_shop_items"))
    ELSE IF out_of_stock(shop, order_id, rejected_item_ids) # {}
    THEN Done(Resp(400, "out_of_stock"))
    ELSE confirm_writes(shop, order_id, rejected_item_ids, item)

PartnerConfirmOrder(shop, order_id, rejected_item_ids) ==
    /\ \E item \in loop_item(shop, order_id, rejected_item_ids) :
           Commit(partner_confirm_order(shop, order_id, rejected_item_ids, item))
    /\ UNCHANGED reqs

\* ------------------------------------------------------- specification
Init ==
    /\ orders = <<>>
    /\ items = <<>>
    /\ next_order_id = 1
    /\ next_item_id = 1
    /\ stock = [p \in PInfos |-> InitStock]
    /\ history = <<>>
    /\ emails = <<>>
    /\ delivery = <<>>
    /\ reqs = [r \in 1..MaxReqs |-> Idle]

Next ==
    \/ \E u \in Users, batch \in Batches : BasketAdd(u, batch)
    \/ \E u \in Users, ids \in IdLists : BasketRemove(u, ids)
    \/ \E u \in Users : CreateOrderFromBasket(u)
    \/ \E u \in Users, order_id \in 0..MaxOrders : DeleteOrder(u, order_id)
    \/ \E u \in Users, order_id \in 0..MaxOrders, contact_id \in Contacts \cup {NoContact} :
           PlaceOrder(u, order_id, contact_id)
    \/ \E shop \in Shops, order_id \in 0..MaxOrders, rejected_item_ids \in SUBSET (1..MaxItems) :
           PartnerConfirmOrder(shop, order_id, rejected_item_ids)

Spec == Init /\ [][Next]_vars

\* The buyer whose requests are served concurrently.
ConcUsers == {"u1"}

\* Add-items requests (of one line each) of one buyer served concurrently,
\* next to the other basket and order requests of that buyer.
NextConcAdd ==
    \/ \E r \in 1..MaxReqs, u \in ConcUsers, batch \in [1..1 -> Lines] : BasketAddBegin(r, u, batch)
    \/ \E r \in 1..MaxReqs : BasketAddCommit(r)
    \/ \E u \in ConcUsers, ids \in IdLists : BasketRemove(u, ids)
    \/ \E u \in ConcUsers : CreateOrderFromBasket(u)
    \/ \E u \in ConcUsers, order_id \in 0..MaxOrders : DeleteOrder(u, order_id)

SpecConcAdd == Init /\ [][NextConcAdd]_vars

\* The lines of the order the suppliers work on in SpecSuppliers: one line,
\* of quantity 1, for every ProductInfo.
SupplierLines ==
    <<[product_info |-> "p1", quantity |-> 1], [product_info |-> "p2", quantity |-> 1],
      [product_info |-> "p3", quantity |-> 1]>>

\* The state after u1 has added SupplierLines to an empty basket, made the
\* basket an order and placed it with the contact c1.
InitSuppliers ==
    /\ orders = (1 :> [user |-> "u1", status |-> "confirmed", delivery_address |-> "c1"])
    /\ items = [i \in 1..Len(SupplierLines) |->
                   [order |-> 1, product_info |-> SupplierLines[i].product_info,
                    quantity |-> SupplierLines[i].quantity,
                    shop_confirmed |-> FALSE, status |-> "pending"]]
    /\ next_order_id = 2
    /\ next_item_id = Len(SupplierLines) + 1
    /\ stock = [p \in PInfos |-> InitStock]
    /\ history = <<[order |-> 1, action |-> "status_updated", item |-> None]>>
    /\ emails = <<[kind |-> "order_confirmation", order |-> 1, to |-> "u1"],
                  [kind |-> "supplier_request", order |-> 1, to |-> "s1"],
                  [kind |-> "supplier_request", order |-> 1, to |-> "s2"]>>
    /\ delivery = [k \in 1..3 |-> Queued]
    /\ reqs = [r \in 1..MaxReqs |-> Idle]

\* PartnerConfirmOrderView.post on that order, with the job queue bounded by
\* MaxSupplierMails.
SupplierConfirm(shop, order_id, rejected_item_ids) ==
    /\ \E item \in loop_item(shop, order_id, rejected_item_ids) :
           LET out == partner_confirm_order(shop, order_id, rejected_item_ids, item)
           IN  /\ removed_mails(out.emails) <= MaxSupplierMails
               /\ Write(out)
    /\ UNCHANGED reqs

NextSuppliers ==
    \E shop \in Shops, order_id \in 0..MaxOrders,
       rejected_item_ids \in SUBSET (1..Len(SupplierLines)) :
        SupplierConfirm(shop, order_id, rejected_item_ids)

SpecSuppliers == InitSuppliers /\ [][NextSuppliers]_vars

\* ------------------------------------------------------- email delivery
\* A self.retry() that is never refused.
retry_unbounded(job) == [state |-> "RETRY", retries |-> job.retries + 1]

\* Task.retry of Celery as send_email_confirmation calls it: the job is sent
\* again with request.retries + 1, unless that exceeds max_retries, in which
\* case the exception is raised and the job has failed.
retry(job) ==
    IF job.retries + 1 > max_retries
    THEN [state |-> "FAILURE", retries |-> job.retries]
    ELSE [state |-> "RETRY", retries |-> job.retries + 1]

\* tasks.send_email_confirmation, one run of the job: raised says that
\* django_send_mail raised, sent is the number of messages it returned.
send_email_confirmation(job, raised, sent) ==
    IF ~raised /\ sent > 0
    THEN [state |-> "SUCCESS", retries |-> job.retries]
    ELSE retry(job)

\* The worker runs the job k of the queue.
SendEmail(k, raised, sent) ==
    /\ k \in DOMAIN delivery
    /\ delivery[k].state \in {"PENDING", "RETRY"}
    /\ delivery' = [delivery EXCEPT ![k] = send_email_confirmation(delivery[k], raised, sent)]
    /\ UNCHANGED <<orders, items, next_order_id, next_item_id, stock, history, emails, reqs>>

\* The worker runs some job.
Worker == \E k \in 1..MaxMails, raised \in BOOLEAN, sent \in 0..1 : SendEmail(k, raised, sent)

\* PartnerConfirmOrderView.post on the order of InitMail, with the job
\* queue bounded by MaxMails.
ConfirmAndNotify(shop, order_id, rejected_item_ids) ==
    /\ \E item \in loop_item(shop, order_id, rejected_item_ids) :
           LET out == partner_confirm_order(shop, order_id, rejected_item_ids, item)
           IN  /\ Len(out.emails) <= MaxMails
               /\ Write(out)
    /\ UNCHANGED reqs

\* The suppliers confirm the order of InitMail while the worker delivers
\* the jobs of the queue.
NextMail ==
    \/ \E shop \in Shops, order_id \in 0..MaxOrders,
          rejected_item_ids \in SUBSET (1..Len(SupplierLines)) :
           ConfirmAndNotify(shop, order_id, rejected_item_ids)
    \/ Worker

\* The state of InitSuppliers some time after the order was placed: the
\* confirmation to the buyer and the request to s1 have been delivered at the
\* first run, the request to s2 has not been run yet.
InitMail ==
    /\ orders = (1 :> [user |-> "u1", status |-> "confirmed", delivery_address |-> "c1"])
    /\ items = [i \in 1..Len(SupplierLines) |->
                   [order |-> 1, product_info |-> SupplierLines[i].product_info,
                    quantity |-> SupplierLines[i].quantity,
                    shop_confirmed |-> FALSE, status |-> "pending"]]
    /\ next_order_id = 2
    /\ next_item_id = Len(SupplierLines) + 1
    /\ stock = [p \in PInfos |-> InitStock]
    /\ history = <<[order |-> 1, action |-> "status_updated", item |-> None]>>
    /\ emails = <<[kind |-> "order_confirmation", order |-> 1, to |-> "u1"],
                  [kind |-> "supplier_request", order |-> 1, to |-> "s1"],
                  [kind |-> "supplier_request", order |-> 1, to |-> "s2"]>>
    /\ delivery = <<[state |-> "SUCCESS", retries |-> 0], [state |-> "SUCCESS", retries |-> 0],
                    Queued>>
    /\ reqs = [r \in 1..MaxReqs |-> Idle]

\* The worker does not leave a job that can run waiting forever.
SpecMail == InitMail /\ [][NextMail]_vars /\ WF_vars(Worker)

\* ------------------------------------------ concurrent basket requests
\* BasketRemoveView.delete up to the delete of the rows: the request has read
\* the caller's basket and has found every id of item_ids among its lines. No
\* lock is taken, so other requests run between this and the delete.
BasketRemoveBegin(r, u, ids) ==
    /\ reqs[r] = Idle
    /\ BasketsOf(orders, u) # {}
    /\ Cardinality(remove_order_items(u, ids)) = Len(ids)
    /\ reqs' = [reqs EXCEPT ![r] = [op |-> "remove", user |-> u, ids |-> ids,
                                    basket |-> First(BasketsOf(orders, u))]]
    /\ UNCHANGED <<orders, items, next_order_id, next_item_id, stock, history, emails, delivery>>

\* order_items.delete() of the request w: the rows of the order it has read
\* as the basket whose id is in item_ids, whatever the order's status is now.
remove_delete(w) ==
    LET order_items == {i \in ItemsOf(items, w.basket) : \E k \in 1..Len(w.ids) : w.ids[k] = i}
    IN  [Done(Resp(200, "")) EXCEPT !.items = [i \in DOMAIN items \ order_items |-> items[i]]]

\* The rest of the transaction of BasketRemoveView.delete, and its commit.
BasketRemoveCommit(r) ==
    /\ reqs[r].op = "remove"
    /\ Commit(remove_delete(reqs[r]))
    /\ reqs' = [reqs EXCEPT ![r] = Idle]

\* Add-items and remove-items requests of one buyer served concurrently with
\* that buyer's create-from-basket, delete-order and place-order requests.
NextConcBasket ==
    \/ \E r \in 1..MaxReqs, u \in ConcUsers, batch \in [1..1 -> Lines] : BasketAddBegin(r, u, batch)
    \/ \E r \in 1..MaxReqs : BasketAddCommit(r)
    \/ \E r \in 1..MaxReqs, u \in ConcUsers, ids \in IdLists : BasketRemoveBegin(r, u, ids)
    \/ \E r \in 1..MaxReqs : BasketRemoveCommit(r)
    \/ \E u \in ConcUsers : CreateOrderFromBasket(u)
    \/ \E u \in ConcUsers, order_id \in 0..MaxOrders : DeleteOrder(u, order_id)
    \/ \E u \in ConcUsers, order_id \in 0..MaxOrders, contact_id \in Contacts \cup {NoContact} :
           PlaceOrder(u, order_id, contact_id)

SpecConcBasket == Init /\ [][NextConcBasket]_vars

\* ------------------------------------------- concurrent confirmations
\* Two orders of u1, both placed with the contact c1: order 1 has a line of
\* p1 (shop s1) and a line of p2 (shop s2), order 2 a line of p1.
ConcLines ==
    <<[order |-> 1, product_info |-> "p1"], [order |-> 1, product_info |-> "p2"],
      [order |-> 2, product_info |-> "p1"]>>

InitConfirm ==
    /\ orders = [o \in 1..2 |-> [user |-> "u1", status |-> "confirmed", delivery_address |-> "c1"]]
    /\ items = [i \in 1..Len(ConcLines) |->
                   [order |-> ConcLines[i].order, product_info |-> ConcLines[i].product_info,
                    quantity |-> 1, shop_confirmed |-> FALSE, status |-> "pending"]]
    /\ next_order_id = 3
    /\ next_item_id = Len(ConcLines) + 1
    /\ stock = [p \in PInfos |-> InitStock]
    /\ history = [o \in 1..2 |-> [order |-> o, action |-> "status_updated", item |-> None]]
    /\ emails = <<[kind |-> "order_confirmation", order |-> 1, to |-> "u1"],
                  [kind |-> "supplier_request", order |-> 1, to |-> "s1"],
                  [kind |-> "supplier_request", order |-> 1, to |-> "s2"],
                  [kind |-> "order_confirmation", order |-> 2, to |-> "u1"],
                  [kind |-> "supplier_request", order |-> 2, to |-> "s1"]>>
    /\ delivery = [k \in 1..5 |-> Queued]
    /\ reqs = [r \in 1..MaxReqs |-> Idle]

\* A confirmation that reads the order without locking its row.
get_unlocked(r, order_id) == TRUE

\* Order.objects.select_for_update().get(id=order_id) of the request r: the
\* statement returns once no other transaction holds the lock on the row.
select_for_update(r, order_id) ==
    \A q \in DOMAIN reqs \ {r} : reqs[q].op = "confirm" => reqs[q].order_id # order_id

\* PartnerConfirmOrderView.post from the select_for_update on: the request has
\* the lock on the Order row and has run its statements on what is committed
\* (the isolation level is READ COMMITTED); its writes are not yet visible to
\* the other transactions. The ProductInfo.quantity values it writes are the
\* ones it has computed from the rows it loaded with confirmed_items.
ConfirmBegin(r, shop, order_id, rejected_item_ids) ==
    /\ reqs[r] = Idle
    /\ order_id \in DOMAIN orders
    /\ select_for_update(r, order_id)
    /\ \E item \in loop_item(shop, order_id, rejected_item_ids) :
           LET out == partner_confirm_order(shop, order_id, rejected_item_ids, item)
               saved == out.resp.code = 200
               confirmed == IF saved THEN confirmed_items(shop, order_id, rejected_item_ids)
                            ELSE {}
           IN  /\ removed_mails(out.emails) <= MaxRemovedMails
               /\ reqs' = [reqs EXCEPT ![r] =
                      [op |-> "confirm", shop |-> shop, order_id |-> order_id,
                       rejected_item_ids |-> rejected_item_ids, item |-> item,
                       snap |-> stock,
                       resp |-> out.resp,
                       rejected |-> IF saved
                                    THEN rejected_items(shop, order_id, rejected_item_ids)
                                    ELSE {},
                       confirmed |-> confirmed,
                       quantity |-> [p \in {items[i].product_info : i \in confirmed} |->
                                        out.stock[p]],
                       status |-> out.orders[order_id].status,
                       history |-> SubSeq(out.history, Len(history) + 1, Len(out.history)),
                       emails |-> SubSeq(out.emails, Len(emails) + 1, Len(out.emails))]]
    /\ UNCHANGED <<orders, items, next_order_id, next_item_id, stock, history, emails, delivery>>

\* What the commit of the transaction w makes of the tables.
confirm_commit(w) ==
    [Done(w.resp) EXCEPT
        !.orders = IF w.status # orders[w.order_id].status
                   THEN [orders EXCEPT ![w.order_id].status = w.status]
                   ELSE orders,
        !.items = confirm_items(handle_rejected_items(items, w.rejected), w.confirmed),
        !.stock = [p \in PInfos |-> IF p \in DOMAIN w.quantity THEN w.quantity[p] ELSE stock[p]],
        !.history = history \o w.history,
        !.emails = emails \o w.emails]

\* The transaction of the request r commits (or, after an error, is rolled
\* back) and releases the lock.
ConfirmCommit(r) ==
    /\ reqs[r].op = "confirm"
    /\ Write(confirm_commit(reqs[r]))
    /\ reqs' = [reqs EXCEPT ![r] = Idle]

\* Confirm calls of the two suppliers served concurrently.
NextConfirm ==
    \/ \E r \in 1..MaxReqs, shop \in Shops, order_id \in 0..MaxOrders,
          rejected_item_ids \in SUBSET (1..Len(ConcLines)) :
           ConfirmBegin(r, shop, order_id, rejected_item_ids)
    \/ \E r \in 1..MaxReqs : ConfirmCommit(r)

SpecConfirm == InitConfirm /\ [][NextConfirm]_vars

\* ---------------------------------------------------------------- claims
\* The request has changed no table and enqueued no job.
Unchanged(out) == out = Done(out.resp)

\* The lines of the basket of u for product_info p, in the tables of out.
BasketLines(out, u, p) ==
    {i \in DOMAIN out.items : /\ out.items[i].order \in BasketsOf(out.orders, u)
                              /\ out.items[i].product_info = p}

\* C1: for every user at most one Order of that user has status "basket",
\* in every reachable state, also when add-items requests run concurrently.
AtMostOneBasketPerUser ==
    \A u \in Users : Cardinality(BasketsOf(orders, u)) <= 1

\* No two rows of its have the same order and the same product_info.
UniqueLines(its) ==
    \A i, j \in DOMAIN its :
        (its[i].order = its[j].order /\ its[i].product_info = its[j].product_info) => i = j

\* C2: in every reachable state no two OrderItems of one order have the same
\* product_info, and every add-items call, whatever its batch, leaves the
\* lines so.
NoDuplicateLines ==
    /\ UniqueLines(items)
    /\ \A u \in Users, batch \in Batches : UniqueLines(basket_add(u, batch).items)

\* C2, its case: a basket that has a line for a product_info, and an add-items
\* call naming that product_info twice that succeeds on it.
NoDuplicateLinesCase ==
    \E u \in Users, batch \in Batches :
        /\ Len(batch) = 2
        /\ batch[1].product_info = batch[2].product_info
        /\ BasketLines(Done(Resp(0, "")), u, batch[1].product_info) # {}
        /\ basket_add(u, batch).resp.code = 200

\* Some line of the batch asks for more than the ProductInfo.quantity.
ExceedsStock(batch) ==
    \E k \in 1..Len(batch) : batch[k].quantity > stock[batch[k].product_info]

\* C3: an add-items call whose batch has a line asking for more than the
\* current ProductInfo.quantity fails and changes nothing: no basket, no
\* line, no quantity of a line, also for the lines before the failing one.
AddAllOrNothing ==
    \A u \in Users, batch \in Batches :
        ExceedsStock(batch) =>
            /\ basket_add(u, batch).resp.code = 400
            /\ Unchanged(basket_add(u, batch))

\* C3, its case: a caller without a basket whose batch has a first line
\* within the stock and a second line above it, and the call fails.
AddAllOrNothingCase ==
    \E u \in Users, batch \in Batches :
        /\ BasketsOf(orders, u) = {}
        /\ Len(batch) = 2
        /\ batch[1].quantity <= stock[batch[1].product_info]
        /\ batch[2].quantity > stock[batch[2].product_info]
        /\ basket_add(u, batch).resp.code = 400

\* C4 as stated: after a successful add-items call the caller's basket has,
\* for every line (p, q) of the batch, exactly one line for p, of quantity q.
AddSetsEveryLine ==
    \A u \in Users, batch \in Batches :
        LET out == basket_add(u, batch)
        IN  out.resp.code = 200 =>
                \A k \in 1..Len(batch) :
                    /\ Cardinality(BasketLines(out, u, batch[k].product_info)) = 1
                    /\ \A i \in BasketLines(out, u, batch[k].product_info) :
                           out.items[i].quantity = batch[k].quantity

\* The last line of the batch that names the product_info of line k.
LastFor(batch, k) ==
    batch[CHOOSE j \in 1..Len(batch) :
              /\ batch[j].product_info = batch[k].product_info
              /\ \A m \in 1..Len(batch) :
                     batch[m].product_info = batch[k].product_info => m <= j]

\* The basket an add-items call of u works on in the tables of out: the
\* basket it found or, when it found none, the order it created.
UsedBasket(out, u) ==
    IF BasketsOf(orders, u) = {} THEN DOMAIN out.orders \ DOMAIN orders
    ELSE BasketsOf(orders, u)

\* C4, amended: a successful add-items call works on one basket of the caller,
\* the one it found or, if it found none, one it creates; after the call that
\* basket has, for every product_info p of the batch, exactly one line, and
\* its quantity is the one of the last line of the batch naming p, whatever
\* the line had before.
AddOverwrites ==
    \A u \in Users, batch \in Batches :
        LET out == basket_add(u, batch)
        IN  out.resp.code = 200 =>
                /\ Cardinality(UsedBasket(out, u)) = 1
                /\ UsedBasket(out, u) \subseteq BasketsOf(out.orders, u)
                /\ \A k \in 1..Len(batch) :
                       LET lines == {i \in DOMAIN out.items :
                                        /\ out.items[i].order \in UsedBasket(out, u)
                                        /\ out.items[i].product_info = batch[k].product_info}
                       IN  /\ Cardinality(lines) = 1
                           /\ \A i \in lines :
                                  out.items[i].quantity = LastFor(batch, k).quantity

\* C4, its case: the basket has a line for p and a successful add-items call
\* gives p another quantity.
AddOverwritesCase ==
    \E u \in Users, batch \in Batches :
        /\ basket_add(u, batch).resp.code = 200
        /\ \E i \in BasketLines(Done(Resp(0, "")), u, batch[1].product_info) :
               /\ items[i].quantity = 2
               /\ batch[1].quantity = 1
               /\ basket_add(u, batch).items[i].quantity = 1

\* C5: add-items, remove-items, create-from-basket, delete-order and
\* place-order leave every ProductInfo.quantity as it is, whether they succeed
\* or fail, and a supplier confirmation changes one only when it succeeds.
SoftReservation ==
    /\ \A u \in Users, batch \in Batches : basket_add(u, batch).stock = stock
    /\ \A u \in Users, ids \in IdLists : basket_remove(u, ids).stock = stock
    /\ \A u \in Users : create_order_from_basket(u).stock = stock
    /\ \A u \in Users, order_id \in 0..MaxOrders : delete_order(u, order_id).stock = stock
    /\ \A u \in Users, order_id \in 0..MaxOrders, contact_id \in Contacts \cup {NoContact} :
           place_order(u, order_id, contact_id).stock = stock
    /\ \A shop \in Shops, order_id \in 0..MaxOrders, rejected_item_ids \in SUBSET (1..MaxItems) :
           \A item \in loop_item(shop, order_id, rejected_item_ids) :
               LET out == partner_confirm_order(shop, order_id, rejected_item_ids, item)
               IN  out.stock # stock => out.resp.code = 200

\* C5, its case: a placed order whose lines are still in the stock, and a
\* confirmation that brought a ProductInfo.quantity down.
SoftReservationCase ==
    /\ \E o \in DOMAIN orders :
           /\ orders[o].status = "confirmed"
           /\ \A i \in ItemsOf(items, o) : ~items[i].shop_confirmed
           /\ \E i \in ItemsOf(items, o) : stock[items[i].product_info] = InitStock
    /\ \E p \in PInfos : stock[p] < InitStock

\* The lines of the caller's basket (none when the caller has no basket).
CallerLines(u) == {i \in DOMAIN items : items[i].order \in BasketsOf(orders, u)}

\* Some submitted id is not a line of the caller's basket.
NotAllLines(u, ids) == \E k \in 1..Len(ids) : ids[k] \notin CallerLines(u)

\* The submitted ids that are not lines of the caller's basket.
NotLines(u, ids) == SelectSeq(ids, LAMBDA x : x \notin CallerLines(u))

\* C6 as stated: a remove-items call with an id that is not a line of the
\* caller's basket fails, reports exactly the submitted ids that are not
\* lines of the caller's basket and deletes nothing.
RemoveReportsInvalidIds ==
    \A u \in Users, ids \in IdLists :
        NotAllLines(u, ids) =>
            /\ basket_remove(u, ids).resp.code # 200
            /\ basket_remove(u, ids).resp.invalid_ids = NotLines(u, ids)
            /\ basket_remove(u, ids).items = items

\* The lines of the basket remove-items reads: the caller's newest basket.
ReadLines(u) ==
    IF BasketsOf(orders, u) = {} THEN {}
    ELSE ItemsOf(items, First(BasketsOf(orders, u)))

\* C6, amended: a remove-items call with an id that is not a line of the
\* basket it reads (the caller's newest) fails and changes nothing; when the
\* caller has a basket it reports exactly the submitted ids that are not lines
\* of that basket, when the caller has none it answers 404 and reports no id.
\* Repeating a successful remove-items with the same ids fails and reports
\* those ids.
RemoveAllOrNothing ==
    /\ [](\A u \in Users, ids \in IdLists :
             (\E k \in 1..Len(ids) : ids[k] \notin ReadLines(u)) =>
                 /\ Unchanged(basket_remove(u, ids))
                 /\ basket_remove(u, ids).resp =
                        IF BasketsOf(orders, u) = {}
                        THEN Resp(404, "no_basket")
                        ELSE [Resp(400, "not_found") EXCEPT
                                 !.invalid_ids = SelectSeq(ids, LAMBDA x : x \notin ReadLines(u))])
    /\ [][\A u \in Users, ids \in IdLists :
             (BasketRemove(u, ids) /\ basket_remove(u, ids).resp.code = 200) =>
                 (basket_remove(u, ids).resp)' =
                     [Resp(400, "not_found") EXCEPT !.invalid_ids = ids]]_vars

\* C6, its case: the caller's basket has a line, and a call naming it next to
\* a line of another user's basket fails and reports the latter.
RemoveAllOrNothingCase ==
    \E u \in Users, ids \in IdLists :
        /\ Len(ids) = 2
        /\ ids[1] \in CallerLines(u)
        /\ \E v \in Users \ {u} : ids[2] \in CallerLines(v)
        /\ basket_remove(u, ids).resp.invalid_ids = <<ids[2]>>

\* The caller has a basket with at least one line.
HasFilledBasket(u) ==
    BasketsOf(orders, u) # {} /\ ItemsOf(items, First(BasketsOf(orders, u))) # {}

\* C7: create-from-basket succeeds exactly when the caller has a basket with
\* at least one line, and then changes nothing but the status of that order,
\* from "basket" to "new"; otherwise it fails and changes nothing, so an empty
\* basket stays a basket. A second call right after a successful one fails.
CreateFromBasketExactly ==
    /\ [](\A u \in Users :
             LET out == create_order_from_basket(u)
             IN  /\ out.resp.code = 200 <=> HasFilledBasket(u)
                 /\ out.resp.code = 200 =>
                        \E o \in BasketsOf(orders, u) :
                            out = [Done(out.resp) EXCEPT
                                      !.orders = [orders EXCEPT ![o].status = "new"]]
                 /\ out.resp.code # 200 => Unchanged(out))
    /\ [][\A u \in Users :
             (CreateOrderFromBasket(u) /\ create_order_from_basket(u).resp.code = 200) =>
                 (create_order_from_basket(u).resp.code)' # 200]_vars

\* C8: delete-order deletes an order only when its caller owns it and its
\* status is "new"; called by another user or on an order in another status
\* it is rejected and leaves the order and its lines as they are; and no
\* other operation deletes an order.
DeleteOnlyNewByOwner ==
    /\ \A u \in Users, order_id \in 0..MaxOrders :
           LET out == delete_order(u, order_id)
           IN  /\ DOMAIN out.orders # DOMAIN orders =>
                      /\ order_id \in DOMAIN orders
                      /\ orders[order_id].user = u
                      /\ orders[order_id].status = "new"
                      /\ DOMAIN out.orders = DOMAIN orders \ {order_id}
               /\ (/\ order_id \in DOMAIN orders
                   /\ (orders[order_id].user # u \/ orders[order_id].status # "new")) =>
                      /\ out.resp.code # 200
                      /\ out.orders = orders
                      /\ out.items = items
    /\ \A u \in Users, batch \in Batches : DOMAIN orders \subseteq DOMAIN basket_add(u, batch).orders
    /\ \A u \in Users, ids \in IdLists : DOMAIN orders \subseteq DOMAIN basket_remove(u, ids).orders
    /\ \A u \in Users : DOMAIN orders \subseteq DOMAIN create_order_from_basket(u).orders
    /\ \A u \in Users, order_id \in 0..MaxOrders, contact_id \in Contacts \cup {NoContact} :
           DOMAIN orders \subseteq DOMAIN place_order(u, order_id, contact_id).orders
    /\ \A shop \in Shops, order_id \in 0..MaxOrders, rejected_item_ids \in SUBSET (1..MaxItems) :
           \A item \in loop_item(shop, order_id, rejected_item_ids) :
               DOMAIN orders \subseteq
                   DOMAIN partner_confirm_order(shop, order_id, rejected_item_ids, item).orders

\* C8, its case: delete-order is rejected for the owner of a placed order and
\* for a user who does not own a "new" order.
DeleteOnlyNewByOwnerCase ==
    /\ \E o \in DOMAIN orders :
           /\ orders[o].status = "confirmed"
           /\ delete_order(orders[o].user, o).resp.code = 400
    /\ \E o \in DOMAIN orders, u \in Users :
           /\ orders[o].status = "new"
           /\ orders[o].user # u
           /\ delete_order(u, o).resp.code = 404

\* What place-order requires of its order and contact.
PlaceAllowed(u, order_id, contact_id) ==
    /\ order_id \in DOMAIN orders
    /\ orders[order_id].user = u
    /\ orders[order_id].status = "new"
    /\ ItemsOf(items, order_id) # {}
    /\ contact_id \in Contacts
    /\ ContactUser(contact_id) = u

\* C9: place-order makes an order "confirmed" only if the caller owns it, it
\* is "new", it has a line and the caller owns the contact, and the order's
\* delivery_address is then that contact; when one of these fails the call
\* returns an error, changes no order and enqueues no email.
PlaceOnlyWhenAllowed ==
    \A u \in Users, order_id \in 0..MaxOrders, contact_id \in Contacts \cup {NoContact} :
        LET out == place_order(u, order_id, contact_id)
        IN  /\ \A o \in DOMAIN orders :
                   (orders[o].status # "confirmed" /\ out.orders[o].status = "confirmed") =>
                       /\ o = order_id
                       /\ PlaceAllowed(u, order_id, contact_id)
                       /\ out.orders[o].delivery_address = contact_id
            /\ out.resp.code = 200 => out.orders[order_id].status = "confirmed"
            /\ ~PlaceAllowed(u, order_id, contact_id) =>
                   /\ out.resp.code >= 400
                   /\ out.orders = orders
                   /\ out.emails = emails

\* C9, its case: a "new" order with a line whose owner places it with the
\* contact of another user and is refused, and with the own contact and
\* succeeds.
PlaceOnlyWhenAllowedCase ==
    \E o \in DOMAIN orders, c, d \in Contacts :
        /\ orders[o].status = "new"
        /\ ItemsOf(items, o) # {}
        /\ ContactUser(c) # orders[o].user
        /\ place_order(orders[o].user, o, c).resp.code = 404
        /\ place_order(orders[o].user, o, d).resp.code = 200

\* C10: place-order on a "new" order of the caller that has a line asking for
\* more than the current ProductInfo.quantity fails and leaves the order
\* "new".
PlaceRevalidatesQuantities ==
    \A u \in Users, order_id \in 0..MaxOrders, contact_id \in Contacts \cup {NoContact} :
        (/\ order_id \in DOMAIN orders
         /\ orders[order_id].user = u
         /\ orders[order_id].status = "new"
         /\ \E i \in ItemsOf(items, order_id) :
                items[i].quantity > stock[items[i].product_info]) =>
            /\ place_order(u, order_id, contact_id).resp.code # 200
            /\ place_order(u, order_id, contact_id).orders[order_id].status = "new"

\* The rejected_items lists a confirm call may carry: ids of OrderItem rows.
RejectLists == SUBSET (1..(next_item_id - 1))

\* C11: a confirm call on an order whose status is not "confirmed", or by the
\* owner of a shop that has no line in the order, is rejected and changes
\* nothing: no line, no ProductInfo.quantity, no order, no history entry, no
\* email.
ConfirmGuards ==
    \A shop \in Shops, order_id \in DOMAIN orders, rejected_item_ids \in RejectLists :
        \A item \in loop_item(shop, order_id, rejected_item_ids) :
            LET out == partner_confirm_order(shop, order_id, rejected_item_ids, item)
            IN  (orders[order_id].status # "confirmed" \/ shop_items(shop, order_id) = {}) =>
                    /\ out.resp.code \in {400, 403}
                    /\ Unchanged(out)

\* C11, its case: an assembled order whose lines' shop calls again and is
\* refused with 400, next to a "confirmed" order without a line of a shop
\* whose call is refused with 403.
ConfirmGuardsCase ==
    /\ \E o \in DOMAIN orders, i \in DOMAIN items :
           /\ orders[o].status = "assembled"
           /\ items[i].order = o
           /\ partner_confirm_order(ShopOf(items[i].product_info), o, {}, i).resp.code = 400
    /\ \E o \in DOMAIN orders, shop \in Shops :
           /\ orders[o].status = "confirmed"
           /\ shop_items(shop, o) = {}
           /\ partner_confirm_order(shop, o, {}, None).resp.code = 403

\* C12: a confirm call in which a line of the calling shop that is not being
\* rejected asks for more than the current ProductInfo.quantity fails as a
\* whole and changes nothing: no ProductInfo.quantity, no line (accepted or
\* rejected in the request), no order status, no history entry, no email.
StockGuard ==
    \A shop \in Shops, order_id \in DOMAIN orders, rejected_item_ids \in RejectLists :
        \A item \in loop_item(shop, order_id, rejected_item_ids) :
            LET out == partner_confirm_order(shop, order_id, rejected_item_ids, item)
            IN  (\E i \in shop_items(shop, order_id) \ rejected_item_ids :
                     items[i].quantity > stock[items[i].product_info]) =>
                    /\ out.resp.code >= 400
                    /\ Unchanged(out)

\* C12, its case: a "confirmed" order with two lines of one shop, a call that
\* rejects one of them and accepts the other, which asks for more than the
\* stock has, and the call is refused with 400.
StockGuardCase ==
    \E o \in DOMAIN orders, i, j \in DOMAIN items :
        /\ orders[o].status = "confirmed"
        /\ i # j
        /\ items[i].order = o
        /\ items[j].order = o
        /\ ShopOf(items[i].product_info) = ShopOf(items[j].product_info)
        /\ items[j].quantity > stock[items[j].product_info]
        /\ partner_confirm_order(ShopOf(items[i].product_info), o, {i}, j).resp
               = Resp(400, "out_of_stock")

\* The quantity of the line of the order for product_info p that the call
\* with outcome out marks shop_confirmed, 0 when it marks none (an order has
\* at most one line for p).
NewlyConfirmed(out, order_id, p) ==
    LET new == {i \in ItemsOf(items, order_id) :
                   /\ items[i].product_info = p
                   /\ ~items[i].shop_confirmed
                   /\ out.items[i].shop_confirmed}
    IN  IF new = {} THEN 0 ELSE items[CHOOSE i \in new : TRUE].quantity

\* C13: over any sequence of confirm calls every OrderItem causes at most one
\* decrement of its ProductInfo.quantity, of the line's quantity: a confirm
\* call takes from every ProductInfo.quantity exactly the quantity of the
\* line it marks shop_confirmed, and nothing for a line that is marked already.
DecrementOncePerLine ==
    \A shop \in Shops, order_id \in DOMAIN orders, rejected_item_ids \in RejectLists :
        \A item \in loop_item(shop, order_id, rejected_item_ids) :
            LET out == partner_confirm_order(shop, order_id, rejected_item_ids, item)
            IN  \A p \in PInfos : stock[p] - out.stock[p] = NewlyConfirmed(out, order_id, p)

\* The sum of the quantities of the OrderItem rows S.
RECURSIVE SumQuantity(_)
SumQuantity(S) ==
    IF S = {} THEN 0
    ELSE LET i == CHOOSE x \in S : TRUE
         IN  items[i].quantity + SumQuantity(S \ {i})

\* C14: for every ProductInfo, what its quantity has lost since the start is
\* the sum of the quantities of its lines that have shop_confirmed = TRUE,
\* and a line of status "rejected" has taken nothing.
Conservation ==
    \A p \in PInfos :
        /\ InitStock - stock[p] =
               SumQuantity({i \in DOMAIN items :
                               items[i].product_info = p /\ items[i].shop_confirmed})
        /\ (\A i \in DOMAIN items : items[i].product_info = p => items[i].status = "rejected")
               => stock[p] = InitStock

\* The lines of the order that are not rejected, in the tables of out.
NonRejected(out, order_id) ==
    {i \in ItemsOf(out.items, order_id) : out.items[i].status # "rejected"}

\* C15: after a successful confirm call on a "confirmed" order the order is
\* "assembled" if and only if it has a line that is not rejected and all such
\* lines, of all shops, are shop_confirmed; it is "canceled" if and only if
\* it has no line that is not rejected; otherwise it is still "confirmed".
StatusClosure ==
    \A shop \in Shops, order_id \in DOMAIN orders, rejected_item_ids \in RejectLists :
        \A item \in loop_item(shop, order_id, rejected_item_ids) :
            LET out == partner_confirm_order(shop, order_id, rejected_item_ids, item)
                left == NonRejected(out, order_id)
            IN  (orders[order_id].status = "confirmed" /\ out.resp.code = 200) =>
                    /\ out.orders[order_id].status = "assembled" <=>
                           (left # {} /\ \A i \in left : out.items[i].shop_confirmed)
                    /\ out.orders[order_id].status = "canceled" <=> left = {}
                    /\ out.orders[order_id].status \in {"confirmed", "assembled", "canceled"}

\* C15, its case: a "confirmed" order with a rejected line on which one
\* successful confirm call ends in "assembled" and another leaves "confirmed".
StatusClosureCase ==
    \E o \in DOMAIN orders :
        /\ \E i \in ItemsOf(items, o) : items[i].status = "rejected"
        /\ \A st \in {"assembled", "confirmed"} :
               \E shop \in Shops, rejected_item_ids \in RejectLists :
                   \E item \in loop_item(shop, o, rejected_item_ids) :
                       LET out == partner_confirm_order(shop, o, rejected_item_ids, item)
                       IN  out.resp.code = 200 /\ out.orders[o].status = st

\* C16: on a "confirmed" order with one line of a shop A and one line of a
\* shop B, the call of B that rejects its only line succeeds and marks the
\* line rejected, before or after A has confirmed its line; the call of A
\* that confirms its line succeeds; and the later of the two leaves the order
\* "assembled".
MixedOutcome ==
    \A o \in DOMAIN orders, a, b \in DOMAIN items :
        (/\ orders[o].status = "confirmed"
         /\ ItemsOf(items, o) = {a, b}
         /\ ShopOf(items[a].product_info) # ShopOf(items[b].product_info)
         /\ items[a].status = "pending"
         /\ items[b].status = "pending"
         /\ ~items[b].shop_confirmed) =>
            /\ \A item \in loop_item(ShopOf(items[b].product_info), o, {b}) :
                   LET out == partner_confirm_order(ShopOf(items[b].product_info), o, {b}, item)
                   IN  /\ out.resp.code = 200
                       /\ out.items[b].status = "rejected"
                       /\ items[a].shop_confirmed => out.orders[o].status = "assembled"
            /\ ~items[a].shop_confirmed =>
                   partner_confirm_order(ShopOf(items[a].product_info), o, {}, a).resp.code = 200

\* The cancellation notifications for the order in the job queue q.
CancelMails(q, o) == SelectSeq(q, LAMBDA e : e.kind = "order_canceled" /\ e.order = o)

\* C17: on a "confirmed" order with lines of two shops, the call of a shop
\* that rejects all of its own lines succeeds, and when it leaves no line
\* that is not rejected the order is "canceled" and exactly one cancellation
\* notification to the buyer has been enqueued.
FullRejection ==
    \A o \in DOMAIN orders, shop \in Shops :
        (/\ orders[o].status = "confirmed"
         /\ shop_items(shop, o) # {}
         /\ \E other \in Shops \ {shop} : shop_items(other, o) # {}) =>
            \A item \in loop_item(shop, o, shop_items(shop, o)) :
                LET out == partner_confirm_order(shop, o, shop_items(shop, o), item)
                IN  /\ out.resp.code = 200
                    /\ \A i \in shop_items(shop, o) : out.items[i].status = "rejected"
                    /\ NonRejected(out, o) = {} =>
                           /\ out.orders[o].status = "canceled"
                           /\ Len(CancelMails(out.emails, o)) = 1

\* The outcomes of all requests that may be served in the current state.
Outcomes ==
    {basket_add(u, batch) : u \in Users, batch \in Batches}
    \cup {basket_remove(u, ids) : u \in Users, ids \in IdLists}
    \cup {create_order_from_basket(u) : u \in Users}
    \cup {delete_order(u, order_id) : u \in Users, order_id \in 0..MaxOrders}
    \cup {place_order(u, order_id, contact_id) :
             u \in Users, order_id \in 0..MaxOrders, contact_id \in Contacts \cup {NoContact}}
    \cup UNION {{partner_confirm_order(shop, order_id, rejected_item_ids, item) :
                    item \in loop_item(shop, order_id, rejected_item_ids)} :
                shop \in Shops, order_id \in 0..MaxOrders, rejected_item_ids \in RejectLists}

\* The changes of status the lifecycle allows.
LegalTransitions ==
    {<<"basket", "new">>, <<"new", "confirmed">>,
     <<"confirmed", "assembled">>, <<"confirmed", "canceled">>}

\* C18: every change of an order's status made by a request is basket->new,
\* new->confirmed, confirmed->assembled or confirmed->canceled, and no request
\* changes the status or the lines of an order that is "assembled" or
\* "canceled", nor, when it is a confirm call on such an order, the stock.
OnlyLegalTransitions ==
    /\ \A out \in Outcomes, o \in DOMAIN orders :
           /\ (o \in DOMAIN out.orders /\ out.orders[o].status # orders[o].status) =>
                  <<orders[o].status, out.orders[o].status>> \in LegalTransitions
           /\ orders[o].status \in {"assembled", "canceled"} =>
                  /\ o \in DOMAIN out.orders
                  /\ out.orders[o] = orders[o]
                  /\ ItemsOf(out.items, o) = ItemsOf(items, o)
                  /\ \A i \in ItemsOf(items, o) : out.items[i] = items[i]
    /\ \A shop \in Shops, o \in DOMAIN orders, rejected_item_ids \in RejectLists :
           \A item \in loop_item(shop, o, rejected_item_ids) :
               orders[o].status \in {"assembled", "canceled"} =>
                   partner_confirm_order(shop, o, rejected_item_ids, item).stock = stock

\* C18, its case: an "assembled" order that its owner tries to place and to
\* delete and the shop of one of its lines tries to confirm again.
OnlyLegalTransitionsCase ==
    \E o \in DOMAIN orders, i \in DOMAIN items, c \in Contacts :
        /\ orders[o].status = "assembled"
        /\ items[i].order = o
        /\ ContactUser(c) = orders[o].user
        /\ place_order(orders[o].user, o, c).resp.code = 404
        /\ delete_order(orders[o].user, o).resp.code = 400
        /\ partner_confirm_order(ShopOf(items[i].product_info), o, {}, i).resp.code = 400

\* The history entries in h that record a change of status of the order.
StatusEntries(h, o) ==
    SelectSeq(h, LAMBDA e : /\ e.order = o
                            /\ e.action \in {"status_updated", "order_assembled",
                                             "order_canceled"})

\* C19: every request that changes the status of an order appends, in its
\* transaction, a history entry for that order that records the change, so
\* the entries recording changes of status keep step with the changes.
EveryTransitionLogged ==
    \A out \in Outcomes, o \in DOMAIN orders :
        (o \in DOMAIN out.orders /\ out.orders[o].status # orders[o].status) =>
            Len(StatusEntries(out.history, o)) = Len(StatusEntries(history, o)) + 1

\* The number of entries of the order with one of the actions in its history.
Entries(o, actions) ==
    Len(SelectSeq(history, LAMBDA e : e.order = o /\ e.action \in actions))

HistoryAppendOnly ==
    \A out \in Outcomes :
        /\ Len(out.history) >= Len(history)
        /\ SubSeq(out.history, 1, Len(history)) = history

\* The number of runs the job has had.
Attempts(job) ==
    IF job.state = "PENDING" THEN 0
    ELSE IF job.state = "RETRY" THEN job.retries
    ELSE job.retries + 1

\* The job will not run again.
Terminated(job) == job.state \in {"SUCCESS", "FAILURE"}

\* C22: every enqueued email job is run at most max_retries + 1 times and
\* then has terminated, delivered or failed; a run of a job, whatever its
\* outcome, leaves the orders, lines, stock and history as the requests
\* committed them; a request commits with the jobs it has enqueued not yet
\* run; and every job terminates.
DeliveryBoundedAndDecoupled ==
    /\ [](\A k \in DOMAIN delivery :
             /\ Attempts(delivery[k]) <= max_retries + 1
             /\ Attempts(delivery[k]) = max_retries + 1 => Terminated(delivery[k]))
    /\ [][/\ (\E k \in DOMAIN delivery : delivery'[k] # delivery[k]) =>
                 UNCHANGED <<orders, items, next_order_id, next_item_id, stock, history, emails>>
          /\ \A k \in DOMAIN delivery' \ DOMAIN delivery : delivery'[k] = Queued]_vars
    /\ <>[](\A k \in DOMAIN delivery : Terminated(delivery[k]))

\* C22, its case: the notification of an assembled order has failed for good
\* after max_retries + 1 runs, and the order is still "assembled".
DeliveryBoundedAndDecoupledCase ==
    \E k \in DOMAIN delivery :
        /\ emails[k].kind = "order_assembled"
        /\ delivery[k].state = "FAILURE"
        /\ Attempts(delivery[k]) = max_retries + 1
        /\ orders[emails[k].order].status = "assembled"
        /\ \E i \in ItemsOf(items, emails[k].order) : items[i].shop_confirmed

\* The transaction in the slot r commits in this step.
Commits(r) == reqs[r] # Idle /\ reqs[r].op = "confirm" /\ reqs'[r] = Idle

\* C23: confirm calls served concurrently on one order are serialized: what
\* the commit of a call leaves of the orders, the lines, the stock, the
\* history and the job queue is what the call leaves when it is served alone
\* in the state its commit finds (the ProductInfo rows it loaded not having
\* been written since by a call on another order), with the same Response;
\* and no order is left "confirmed" with lines that are not rejected and are
\* all shop_confirmed.
ConfirmsSerialized ==
    /\ [](\A o \in DOMAIN orders :
             (orders[o].status = "confirmed" /\ NonRejected(Done(Resp(200, "")), o) # {}) =>
                 \E i \in NonRejected(Done(Resp(200, "")), o) : ~items[i].shop_confirmed)
    /\ [][\A r \in 1..MaxReqs :
             (Commits(r) /\ reqs[r].snap = stock) =>
                 LET w == reqs[r]
                     out == partner_confirm_order(w.shop, w.order_id, w.rejected_item_ids, w.item)
                 IN  /\ out.resp = w.resp
                     /\ orders' = out.orders
                     /\ items' = out.items
                     /\ stock' = out.stock
                     /\ history' = out.history
                     /\ emails' = out.emails]_vars

\* C23, its case: s1 and s2 have both called confirm on order 1, the call of
\* s2 has waited for the commit of the call of s1 that was running, and the
\* order is "assembled" with both lines shop_confirmed.
ConfirmsSerializedCase ==
    /\ orders[1].status = "assembled"
    /\ \A i \in ItemsOf(items, 1) : items[i].shop_confirmed /\ items[i].status = "pending"
    /\ Len(SelectSeq(history, LAMBDA e : e.order = 1 /\ e.action = "partner_action")) = 2
    /\ \E r \in 1..MaxReqs : reqs[r] # Idle /\ reqs[r].order_id = 2

\* C24: no ProductInfo.quantity is ever negative, and no decrement is lost:
\* the commit of a successful confirm call leaves every ProductInfo.quantity
\* lower than the committed value it finds by the quantity of the line of
\* that ProductInfo the call has confirmed, also when two orders with a line
\* of the same ProductInfo are confirmed concurrently.
NoLostDecrement ==
    /\ [](\A p \in PInfos : stock[p] >= 0)
    /\ [][\A r \in 1..MaxReqs :
             Commits(r) =>
                 \A p \in PInfos :
                     stock'[p] = stock[p] - SumQuantity({i \in reqs[r].confirmed :
                                                            items[i].product_info = p})]_vars

\* The entries of action in the history h that the request has added.
Added(h, action) ==
    SelectSeq(SubSeq(h, Len(history) + 1, Len(h)), LAMBDA e : e.action = action)

\* The "items removed" jobs in the queue q that the request has added.
AddedRemovedMails(q) ==
    SelectSeq(SubSeq(q, Len(emails) + 1, Len(q)), LAMBDA e : e.kind = "items_removed")

OnlyOwnLines ==
    \A shop \in Shops, order_id \in 0..MaxOrders, rejected_item_ids \in RejectLists :
        \A item \in loop_item(shop, order_id, rejected_item_ids) :
            LET out == partner_confirm_order(shop, order_id, rejected_item_ids, item)
            IN  /\ DOMAIN out.items = DOMAIN items
                /\ \A i \in DOMAIN items :
                       (ShopOf(items[i].product_info) # shop \/ items[i].order # order_id) =>
                           out.items[i] = items[i]
                /\ \A p \in PInfos : ShopOf(p) # shop => out.stock[p] = stock[p]

\* C26, its case: a successful call whose rejected_items names a line of
\* another shop in the order, which stays pending.
OnlyOwnLinesCase ==
    \E shop \in Shops, order_id \in DOMAIN orders, rejected_item_ids \in RejectLists :
        \E item \in loop_item(shop, order_id, rejected_item_ids) :
            /\ partner_confirm_order(shop, order_id, rejected_item_ids, item).resp.code = 200
            /\ \E i \in rejected_item_ids \cap ItemsOf(items, order_id) :
                   /\ ShopOf(items[i].product_info) # shop
                   /\ items[i].status = "pending"

\* The product_info and the quantity of the lines of the order o in its.
LinesOf(its, o) ==
    [i \in ItemsOf(its, o) |->
        [product_info |-> its[i].product_info, quantity |-> its[i].quantity]]

\* C27: a step never adds a line to, removes a line from or changes the
\* quantity of a line of an order whose status is not "basket", except that
\* a "new" order may go with all its lines; also when add-items and
\* remove-items requests of a buyer overlap with that buyer's
\* create-from-basket.
LinesFrozen ==
    [][\A o \in DOMAIN orders :
          orders[o].status # "basket" =>
              IF o \in DOMAIN orders'
              THEN LinesOf(items', o) = LinesOf(items, o)
              ELSE orders[o].status = "new" /\ ItemsOf(items', o) = {}]_vars

\* C30: every order whose status is not "basket" has at least one line, and
\* no place-order request is refused for an order without lines; also when
\* remove-items requests of a buyer overlap with that buyer's
\* create-from-basket.
NoEmptyOrder ==
    /\ \A o \in DOMAIN orders : orders[o].status # "basket" => ItemsOf(items, o) # {}
    /\ \A u \in Users, order_id \in 0..MaxOrders, contact_id \in Contacts :
           place_order(u, order_id, contact_id).resp.error # "empty"

\* C28: the decision of a supplier on a line is final: a confirm call never
\* sets a line that has shop_confirmed = TRUE to "rejected", never gives a
\* "rejected" line shop_confirmed = TRUE and never takes the quantity of a
\* "rejected" line from the stock; and no line is "rejected" with
\* shop_confirmed = TRUE.
DecisionFinal ==
    /\ \A i \in DOMAIN items : items[i].status = "rejected" => ~items[i].shop_confirmed
    /\ \A shop \in Shops, order_id \in DOMAIN orders, rejected_item_ids \in RejectLists :
           \A item \in loop_item(shop, order_id, rejected_item_ids) :
               LET out == partner_confirm_order(shop, order_id, rejected_item_ids, item)
               IN  \A i \in ItemsOf(items, order_id) :
                       /\ items[i].shop_confirmed => out.items[i].status # "rejected"
                       /\ items[i].status = "rejected" =>
                              /\ ~out.items[i].shop_confirmed
                              /\ out.stock[items[i].product_info] = stock[items[i].product_info]

\* The jobs in the queue q that the request has added.
AddedMails(q) == SubSeq(q, Len(emails) + 1, Len(q))

\* C29: every job a confirm call enqueues stands for a change the call
\* commits (a rejection mail for lines it leaves "rejected", an assembled or
\* canceled mail for the status it gives the order), and a call that does
\* not answer 200 enqueues no job.
MailsFollowCommit ==
    \A shop \in Shops, order_id \in 0..MaxOrders, rejected_item_ids \in RejectLists :
        \A item \in loop_item(shop, order_id, rejected_item_ids) :
            LET out == partner_confirm_order(shop, order_id, rejected_item_ids, item)
                mails == AddedMails(out.emails)
            IN  /\ out.resp.code # 200 => mails = <<>>
                /\ \A k \in 1..Len(mails) :
                       /\ mails[k].kind = "items_removed" =>
                              \A i \in mails[k].lines : out.items[i].status = "rejected"
                       /\ mails[k].kind = "order_assembled" =>
                              out.orders[mails[k].order].status = "assembled"
                       /\ mails[k].kind = "order_canceled" =>
                              out.orders[mails[k].order].status = "canceled"

====
